---- MODULE Spec2Model ----
(***************************************************************************)
(* Model of src/lambda/lambda_function.py: the Textract request handler.   *)
(*                                                                         *)
(* Python values are tagged records, one payload field per type:           *)
(*   None   [t |-> "NoneType"]                                             *)
(*   bool   [t |-> "bool",  b |-> TRUE]                                    *)
(*   int    [t |-> "int",   i |-> 5]                                       *)
(*   str    [t |-> "str",   s |-> <<symbols>>]                             *)
(*   bytes  [t |-> "bytes", by |-> <<0..255>>]                             *)
(*   list   [t |-> "list",  l |-> <<values>>]                              *)
(*   dict   [t |-> "dict",  items |-> << <<key, value>>, ... >>]           *)
(*          (insertion ordered, keys unique, a key is a str payload)       *)
(* A str payload is a sequence of symbols.  A symbol is one character for  *)
(* base64 text and a whole word for the fixed literals of the program      *)
(* ("image", "Missing request body").  A str that carries JSON text is     *)
(*   [t |-> "str", json |-> <<tokens>>]                                    *)
(* its payload being the sequence of lexical tokens of the text.           *)
(***************************************************************************)
EXTENDS Integers, Sequences, FiniteSets, TLC

\* ------------------------------------------------------------------ bounds
\* longest base64 text enumerated exhaustively for the "image" value
MaxImageLen == 3
\* longest Blocks sequence the downstream service returns
MaxBlocks == 2

\* ------------------------------------------------------------ Python values
PyNone == [t |-> "NoneType"]
PyBool(x) == [t |-> "bool", b |-> x]
PyInt(n) == [t |-> "int", i |-> n]
PyStr(syms) == [t |-> "str", s |-> syms]
PyBytes(bs) == [t |-> "bytes", by |-> bs]
PyList(vs) == [t |-> "list", l |-> vs]
PyDict(kvs) == [t |-> "dict", items |-> kvs]
JsonText(toks) == [t |-> "str", json |-> toks]

\* a one-word str payload
W(word) == <<word>>

IsJsonText(v) == v.t = "str" /\ "json" \in DOMAIN v

\* results of operations that may raise
Ok(v) == [ok |-> TRUE, val |-> v]
Raise(cls, msg) == [ok |-> FALSE, exc |-> [cls |-> cls, msg |-> msg]]

\* ------------------------------------------------- Python exception classes
\* direct base class of each exception class the handler can meet
BaseOf(cls) ==
    CASE cls = "JSONDecodeError" -> "ValueError"
      [] cls = "binascii.Error" -> "ValueError"
      [] cls = "UnicodeEncodeError" -> "ValueError"
      [] cls = "ValueError" -> "Exception"
      [] cls = "KeyError" -> "LookupError"
      [] cls = "LookupError" -> "Exception"
      [] cls = "TypeError" -> "Exception"
      [] cls = "AttributeError" -> "Exception"
      [] cls = "RuntimeError" -> "Exception"
      [] cls = "ClientError" -> "Exception"
      [] cls = "ParamValidationError" -> "BotoCoreError"
      [] cls = "EndpointConnectionError" -> "BotoCoreError"
      [] cls = "BotoCoreError" -> "Exception"
      [] cls = "Exception" -> "BaseException"
      [] OTHER -> "object"

RECURSIVE IsSubclass(_, _)
IsSubclass(cls, base) ==
    IF cls = base THEN TRUE
    ELSE IF cls = "object" THEN FALSE
    ELSE IsSubclass(BaseOf(cls), base)

\* `except base as e` matches e
IsInstance(e, base) == IsSubclass(e.cls, base)

\* str(e): the message the exception was built with
StrOf(e) == e.msg

\* --------------------------------------------------------- Python operators
\* bool(v)
Truthy(v) ==
    CASE v.t = "NoneType" -> FALSE
      [] v.t = "bool" -> v.b
      [] v.t = "int" -> v.i # 0
      [] v.t = "str" -> IF IsJsonText(v) THEN Len(v.json) > 0 ELSE Len(v.s) > 0
      [] v.t = "bytes" -> Len(v.by) > 0
      [] v.t = "list" -> Len(v.l) > 0
      [] v.t = "dict" -> Len(v.items) > 0

\* sub occurs in s as a contiguous run
IsSubSeq(sub, s) ==
    \E k \in 0..(Len(s) - Len(sub)) :
        \A j \in 1..Len(sub) : s[k + j] = sub[j]

HasKey(d, key) == \E k \in 1..Len(d.items) : d.items[k][1] = key

Lookup(d, key) == d.items[CHOOSE k \in 1..Len(d.items) : d.items[k][1] = key][2]

\* `key in v` for a str key
Contains(v, key) ==
    CASE v.t = "dict" -> Ok(HasKey(v, key))
      [] v.t = "list" -> Ok(\E k \in 1..Len(v.l) : v.l[k] = PyStr(key))
      [] v.t = "str" -> IF IsJsonText(v) THEN Ok(FALSE) ELSE Ok(IsSubSeq(key, v.s))
      [] OTHER -> Raise("TypeError", W("argument is not iterable"))

\* `v[key]` for a str key
GetItem(v, key) ==
    CASE v.t = "dict" -> IF HasKey(v, key) THEN Ok(Lookup(v, key))
                         ELSE Raise("KeyError", key)
      [] v.t = "list" -> Raise("TypeError", W("list indices must be integers or slices, not str"))
      [] v.t = "str" -> Raise("TypeError", W("string indices must be integers"))
      [] v.t = "bytes" -> Raise("TypeError", W("byte indices must be integers or slices, not str"))
      [] OTHER -> Raise("TypeError", W("object is not subscriptable"))

\* faulty variant of DictGet: the default is dropped, an absent key reads as None
DictGet_NoDefault(d, key, default) == IF HasKey(d, key) THEN Lookup(d, key) ELSE PyNone

\* `d.get(key, default)` on a dict
DictGet(d, key, default) == IF HasKey(d, key) THEN Lookup(d, key) ELSE default

\* ------------------------------------------------------------------- base64
B64Alphabet ==
    << "A","B","C","D","E","F","G","H","I","J","K","L","M","N","O","P",
       "Q","R","S","T","U","V","W","X","Y","Z","a","b","c","d","e","f",
       "g","h","i","j","k","l","m","n","o","p","q","r","s","t","u","v",
       "w","x","y","z","0","1","2","3","4","5","6","7","8","9","+","/" >>

InAlphabet(c) == \E k \in 1..64 : B64Alphabet[k] = c

B64Value(c) == (CHOOSE k \in 1..64 : B64Alphabet[k] = c) - 1

\* utf-8 bytes of one symbol; <<>> marks a symbol that cannot be encoded
Utf8Of(c) ==
    CASE c = "e-acute" -> <<"0xC3", "0xA9">>
      [] c = "U+D800" -> <<>>
      [] OTHER -> <<c>>

RECURSIVE EncodeSyms(_)
EncodeSyms(syms) ==
    IF syms = <<>> THEN <<>>
    ELSE Utf8Of(Head(syms)) \o EncodeSyms(Tail(syms))

\* v.encode('utf-8')
str_encode(v) ==
    IF v.t # "str" THEN Raise("AttributeError", W("object has no attribute 'encode'"))
    ELSE IF IsJsonText(v) THEN Raise("TypeError", W("unsupported"))
    ELSE IF \E k \in 1..Len(v.s) : Utf8Of(v.s[k]) = <<>>
         THEN Raise("UnicodeEncodeError", W("surrogates not allowed"))
    ELSE Ok(EncodeSyms(v.s))

\* binascii.a2b_base64 in its default, non-strict mode: characters outside
\* the alphabet are skipped, a pad run that completes a quad ends the parse
RECURSIVE a2b_base64(_, _, _, _, _, _)
a2b_base64(data, i, quad_pos, leftchar, pads, out) ==
    IF i > Len(data) THEN
        IF quad_pos = 0 THEN Ok(PyBytes(out))
        ELSE IF quad_pos = 1
             THEN Raise("binascii.Error", W("Invalid base64-encoded string"))
             ELSE Raise("binascii.Error", W("Incorrect padding"))
    ELSE IF data[i] = "=" THEN
        IF quad_pos >= 2 /\ quad_pos + pads + 1 >= 4 THEN Ok(PyBytes(out))
        ELSE a2b_base64(data, i + 1, quad_pos, leftchar,
                        IF quad_pos >= 2 THEN pads + 1 ELSE pads, out)
    ELSE IF ~InAlphabet(data[i]) THEN
        a2b_base64(data, i + 1, quad_pos, leftchar, pads, out)
    ELSE LET c == B64Value(data[i]) IN
        CASE quad_pos = 0 ->
               a2b_base64(data, i + 1, 1, c, 0, out)
          [] quad_pos = 1 ->
               a2b_base64(data, i + 1, 2, c % 16, 0,
                          Append(out, leftchar * 4 + c \div 16))
          [] quad_pos = 2 ->
               a2b_base64(data, i + 1, 3, c % 4, 0,
                          Append(out, leftchar * 16 + c \div 4))
          [] quad_pos = 3 ->
               a2b_base64(data, i + 1, 0, 0, 0,
                          Append(out, leftchar * 64 + c))

\* base64.b64decode(data)
b64decode(data) == a2b_base64(data, 1, 0, 0, 0, <<>>)

\* --------------------------------------------------------------------- json
\* lexical tokens of a JSON text: punctuation, a scalar literal, or a run of
\* characters that starts no JSON value ("junk")
Punct(c) == [k |-> c]
Lit(v) == [k |-> "lit", v |-> v]
Junk == [k |-> "junk"]
Eof == [k |-> "eof"]

\* s[idx:idx+1], idx counted from 0 as the decoder does
At(s, idx) == IF idx < Len(s) THEN s[idx + 1] ELSE Eof

IsStrLit(tok) == tok.k = "lit" /\ tok.v.t = "str"

ScanOk(v, end) == [ok |-> TRUE, val |-> v, end |-> end]

\* json.JSONDecodeError(msg, doc, pos); str(e) is "msg: line L column C (char P)",
\* the position counted here in tokens
JSONDecodeError(msg, pos) ==
    Raise("JSONDecodeError",
          <<msg, ": line 1 column ", ToString(pos + 1), " (char ", ToString(pos), ")">>)

\* dict(pairs): a later pair replaces the value of an earlier equal key
RECURSIVE dict_from_pairs(_, _)
dict_from_pairs(pairs, acc) ==
    IF pairs = <<>> THEN acc
    ELSE LET p == Head(pairs) IN
         IF \E k \in 1..Len(acc) : acc[k][1] = p[1]
         THEN dict_from_pairs(Tail(pairs),
                 [k \in 1..Len(acc) |-> IF acc[k][1] = p[1] THEN p ELSE acc[k]])
         ELSE dict_from_pairs(Tail(pairs), Append(acc, p))

RECURSIVE scan_once(_, _)
RECURSIVE ObjectLoop(_, _, _)
RECURSIVE ArrayLoop(_, _, _)

\* json.decoder.JSONObject, entered after the opening brace
JSONObject(s, end) ==
    LET tok == At(s, end) IN
    IF ~IsStrLit(tok) THEN
        IF tok.k = "}" THEN ScanOk(PyDict(<<>>), end + 1)
        ELSE JSONDecodeError("Expecting property name enclosed in double quotes", end)
    ELSE ObjectLoop(s, end, <<>>)

\* the `while True` of JSONObject; end is at a key
ObjectLoop(s, end, pairs) ==
    LET key == At(s, end).v.s IN
    IF At(s, end + 1).k # ":" THEN JSONDecodeError("Expecting ':' delimiter", end + 1)
    ELSE LET r == scan_once(s, end + 2) IN
    IF ~r.ok THEN r
    ELSE LET pairs2 == Append(pairs, <<key, r.val>>)
             nextchar == At(s, r.end) IN
    IF nextchar.k = "}" THEN ScanOk(PyDict(dict_from_pairs(pairs2, <<>>)), r.end + 1)
    ELSE IF nextchar.k # "," THEN JSONDecodeError("Expecting ',' delimiter", r.end)
    ELSE IF ~IsStrLit(At(s, r.end + 1))
         THEN JSONDecodeError("Expecting property name enclosed in double quotes", r.end + 1)
    ELSE ObjectLoop(s, r.end + 1, pairs2)

\* json.decoder.JSONArray, entered after the opening bracket
JSONArray(s, end) ==
    IF At(s, end).k = "]" THEN ScanOk(PyList(<<>>), end + 1)
    ELSE ArrayLoop(s, end, <<>>)

ArrayLoop(s, end, values) ==
    LET r == scan_once(s, end) IN
    IF ~r.ok THEN r
    ELSE LET values2 == Append(values, r.val)
             nextchar == At(s, r.end) IN
    IF nextchar.k = "]" THEN ScanOk(PyList(values2), r.end + 1)
    ELSE IF nextchar.k # "," THEN JSONDecodeError("Expecting ',' delimiter", r.end)
    ELSE ArrayLoop(s, r.end + 1, values2)

\* json.scanner scan_once; its StopIteration is turned by every caller into
\* JSONDecodeError("Expecting value")
scan_once(s, idx) ==
    LET tok == At(s, idx) IN
    CASE tok.k = "lit" -> ScanOk(tok.v, idx + 1)
      [] tok.k = "{" -> JSONObject(s, idx + 1)
      [] tok.k = "[" -> JSONArray(s, idx + 1)
      [] OTHER -> JSONDecodeError("Expecting value", idx)

\* json.loads(v)
json_loads(v) ==
    IF v.t # "str"
    THEN Raise("TypeError", W("the JSON object must be str, bytes or bytearray"))
    ELSE IF ~IsJsonText(v) THEN JSONDecodeError("Expecting value", 0)
    ELSE LET r == scan_once(v.json, 0) IN
         IF ~r.ok THEN [ok |-> FALSE, exc |-> r.exc]
         ELSE IF r.end # Len(v.json) THEN JSONDecodeError("Extra data", r.end)
         ELSE Ok(r.val)

RECURSIVE Serializable(_)
Serializable(v) ==
    CASE v.t = "bytes" -> FALSE
      [] v.t = "list" -> \A k \in 1..Len(v.l) : Serializable(v.l[k])
      [] v.t = "dict" -> \A k \in 1..Len(v.items) : Serializable(v.items[k][2])
      [] OTHER -> TRUE

RECURSIVE DumpTokens(_)
RECURSIVE DumpItems(_, _)
RECURSIVE DumpElems(_, _)

DumpItems(items, k) ==
    IF k > Len(items) THEN <<>>
    ELSE (IF k > 1 THEN <<Punct(",")>> ELSE <<>>)
         \o <<Lit(PyStr(items[k][1])), Punct(":")>>
         \o DumpTokens(items[k][2])
         \o DumpItems(items, k + 1)

DumpElems(l, k) ==
    IF k > Len(l) THEN <<>>
    ELSE (IF k > 1 THEN <<Punct(",")>> ELSE <<>>)
         \o DumpTokens(l[k])
         \o DumpElems(l, k + 1)

\* the tokens json.dumps writes for a serializable value
DumpTokens(v) ==
    CASE v.t = "dict" -> <<Punct("{")>> \o DumpItems(v.items, 1) \o <<Punct("}")>>
      [] v.t = "list" -> <<Punct("[")>> \o DumpElems(v.l, 1) \o <<Punct("]")>>
      [] OTHER -> <<Lit(v)>>

\* json.dumps(v)
json_dumps(v) ==
    IF Serializable(v) THEN Ok(JsonText(DumpTokens(v)))
    ELSE Raise("TypeError", W("Object is not JSON serializable"))

\* ------------------------------------------------------------ the handler
VARIABLES pc, event, request_body, image, blocks, calls, outcome, response, log

vars == <<pc, event, request_body, image, blocks, calls, outcome, response, log>>

Entry(level, fmt) == [level |-> level, fmt |-> fmt]

ValueError(text) == [cls |-> "ValueError", msg |-> W(text)]

\* where the try body stands when it reaches the Textract call, or what it raised
Proceed(doc, lg, rb) == [ok |-> TRUE, val |-> doc, log |-> lg, request_body |-> rb]
Fail(exc, lg, rb) == [ok |-> FALSE, exc |-> exc, log |-> lg, request_body |-> rb]

\* error_response(status_code, error_type, message)
error_response(status_code, error_type, message) ==
    [ statusCode |-> status_code,
      headers |-> ("Content-Type" :> "application/json"),
      body |-> json_dumps(PyDict(<< <<W("Error"), PyStr(error_type)>>,
                                    <<W("ErrorMessage"), PyStr(message)>> >>)).val ]

\* faulty variant of except_clauses: the generic clause is missing
except_clauses_NoFallback(exc) ==
    IF IsInstance(exc, "ValueError") THEN
        [ ok |-> TRUE,
          val |-> error_response(400, W("ValueError"), StrOf(exc)),
          log |-> <<Entry("ERROR", "Input validation error")>> ]
    ELSE [ok |-> FALSE, exc |-> exc, log |-> <<>>]

\* faulty variant of except_clauses: the generic clause comes first
except_clauses_FallbackFirst(exc) ==
    IF IsInstance(exc, "Exception") THEN
        [ ok |-> TRUE,
          val |-> error_response(500, W("InternalServerError"),
                                 W("An internal error occurred. Check logs for details.")),
          log |-> <<Entry("ERROR", "Unexpected error")>> ]
    ELSE IF IsInstance(exc, "ValueError") THEN
        [ ok |-> TRUE,
          val |-> error_response(400, W("ValueError"), StrOf(exc)),
          log |-> <<Entry("ERROR", "Input validation error")>> ]
    ELSE [ok |-> FALSE, exc |-> exc, log |-> <<>>]

\* the two except clauses of the handler's outer try
except_clauses(exc) ==
    IF IsInstance(exc, "ValueError") THEN
        [ ok |-> TRUE,
          val |-> error_response(400, W("ValueError"), StrOf(exc)),
          log |-> <<Entry("ERROR", "Input validation error")>> ]
    ELSE IF IsInstance(exc, "Exception") THEN
        [ ok |-> TRUE,
          val |-> error_response(500, W("InternalServerError"),
                                 W("An internal error occurred. Check logs for details.")),
          log |-> <<Entry("ERROR", "Unexpected error")>> ]
    ELSE [ok |-> FALSE, exc |-> exc, log |-> <<>>]

\* faulty variant of CheckBody: only the presence of the key is tested
CheckBody_KeyOnly(ev) ==
    LET c == Contains(ev, W("body")) IN
    IF ~c.ok THEN c
    ELSE IF ~c.val THEN [ok |-> FALSE, exc |-> ValueError("Missing request body")]
    ELSE GetItem(ev, W("body"))

\* `'body' not in event or not event['body']`, then event['body']
CheckBody(ev) ==
    LET c == Contains(ev, W("body")) IN
    IF ~c.ok THEN c
    ELSE IF ~c.val THEN [ok |-> FALSE, exc |-> ValueError("Missing request body")]
    ELSE LET b == GetItem(ev, W("body")) IN
         IF ~b.ok THEN b
         ELSE IF ~Truthy(b.val)
              THEN [ok |-> FALSE, exc |-> ValueError("Missing request body")]
              ELSE b

\* the image branch: encode, decode, wrap; any Exception becomes ValueError
DecodeImage(rb) ==
    LET g == GetItem(rb, W("image"))
        enc == str_encode(g.val)
        dec == b64decode(enc.val)
        failure == IF ~g.ok THEN g.exc ELSE IF ~enc.ok THEN enc.exc ELSE dec.exc
    IN  IF g.ok /\ enc.ok /\ dec.ok
        THEN Proceed(PyDict(<< <<W("Bytes"), dec.val>> >>), <<>>, <<rb>>)
        ELSE IF IsInstance(failure, "Exception")
        THEN Fail(ValueError("Invalid base64 image encoding"),
                  <<Entry("ERROR", "Error decoding base64 image")>>, <<rb>>)
        ELSE Fail(failure, <<>>, <<rb>>)

\* faulty variant of ReadS3Object: Bucket and Name are read with .get
ReadS3Object_Lenient(rb) ==
    LET s3 == GetItem(rb, W("S3Object")) IN
    IF ~s3.ok THEN Fail(s3.exc, <<>>, <<rb>>)
    ELSE IF s3.val.t # "dict"
    THEN Fail([cls |-> "AttributeError", msg |-> W("object has no attribute 'get'")],
              <<>>, <<rb>>)
    ELSE Proceed(PyDict(<< <<W("S3Object"),
                             PyDict(<< <<W("Bucket"), DictGet(s3.val, W("Bucket"), PyNone)>>,
                                       <<W("Name"), DictGet(s3.val, W("Name"), PyNone)>> >>)>> >>),
                 <<>>, <<rb>>)

\* the S3Object branch: read Bucket then Name; only KeyError becomes ValueError
ReadS3Object(rb) ==
    LET s3 == GetItem(rb, W("S3Object"))
        bucket == GetItem(s3.val, W("Bucket"))
        name == GetItem(s3.val, W("Name"))
        failure == IF ~s3.ok THEN s3.exc ELSE IF ~bucket.ok THEN bucket.exc ELSE name.exc
    IN  IF s3.ok /\ bucket.ok /\ name.ok
        THEN Proceed(PyDict(<< <<W("S3Object"),
                                 PyDict(<< <<W("Bucket"), bucket.val>>,
                                           <<W("Name"), name.val>> >>)>> >>),
                     <<>>, <<rb>>)
        ELSE IF IsInstance(failure, "KeyError")
        THEN Fail(ValueError("Invalid S3Object structure, required: 'Bucket' and 'Name'"),
                  <<Entry("ERROR", "Missing key in S3Object structure")>>, <<rb>>)
        ELSE Fail(failure, <<>>, <<rb>>)

\* faulty variant of ResolveSource: the S3Object key is tested before the image key
ResolveSource_S3First(rb) ==
    LET hasS3 == Contains(rb, W("S3Object")) IN
    IF ~hasS3.ok THEN Fail(hasS3.exc, <<>>, <<rb>>)
    ELSE IF hasS3.val THEN ReadS3Object(rb)
    ELSE LET hasImage == Contains(rb, W("image")) IN
         IF ~hasImage.ok THEN Fail(hasImage.exc, <<>>, <<rb>>)
         ELSE IF hasImage.val THEN DecodeImage(rb)
         ELSE Fail(ValueError("Invalid input: Provide 'image' as base64 or 'S3Object' with bucket and name"),
                   <<>>, <<rb>>)

\* "Determine document source": image first, S3Object second, else ValueError
ResolveSource(rb) ==
    LET hasImage == Contains(rb, W("image")) IN
    IF ~hasImage.ok THEN Fail(hasImage.exc, <<>>, <<rb>>)
    ELSE IF hasImage.val THEN DecodeImage(rb)
    ELSE LET hasS3 == Contains(rb, W("S3Object")) IN
         IF ~hasS3.ok THEN Fail(hasS3.exc, <<>>, <<rb>>)
         ELSE IF hasS3.val THEN ReadS3Object(rb)
         ELSE Fail(ValueError("Invalid input: Provide 'image' as base64 or 'S3Object' with bucket and name"),
                   <<>>, <<rb>>)

\* the try body from its first line to the Textract call
Prologue(ev) ==
    LET dumped == json_dumps(ev)
        received == <<Entry("INFO", "Received event")>>
        body == CheckBody(ev)
        parsed == json_loads(body.val)
    IN  IF ~dumped.ok THEN Fail(dumped.exc, <<>>, <<>>)
        ELSE IF ~body.ok THEN Fail(body.exc, received, <<>>)
        ELSE IF ~parsed.ok THEN Fail(parsed.exc, received, <<>>)
        ELSE LET src == ResolveSource(parsed.val) IN
             [src EXCEPT !.log = received \o @]

\* the try body after Textract returned: read Blocks, build the 200 envelope
Success(resp) ==
    LET blks == DictGet(resp, W("Blocks"), PyList(<<>>))
        processed == <<Entry("INFO", "Successfully processed document with Textract.")>>
        dumped == json_dumps(PyDict(<< <<W("Blocks"), blks>> >>))
    IN  IF dumped.ok
        THEN [ ok |-> TRUE,
               val |-> [ statusCode |-> 200,
                         headers |-> ("Content-Type" :> "application/json"),
                         body |-> dumped.val ],
               log |-> processed, blocks |-> <<blks>> ]
        ELSE LET h == except_clauses(dumped.exc) IN
             IF h.ok THEN [ok |-> TRUE, val |-> h.val, log |-> processed \o h.log,
                           blocks |-> <<blks>>]
             ELSE [ok |-> FALSE, exc |-> h.exc, log |-> processed, blocks |-> <<blks>>]

\* `except ClientError as e`: log e.response['Error']['Message'], raise ValueError
OnClientError(e) ==
    LET err == GetItem(e.response, W("Error"))
        message == GetItem(err.val, W("Message"))
    IN  IF ~err.ok THEN Fail(err.exc, <<>>, <<>>)
        ELSE IF ~message.ok THEN Fail(message.exc, <<>>, <<>>)
        ELSE Fail(ValueError("Error processing document with Textract"),
                  <<Entry("ERROR", "Textract client error")>>, <<>>)

\* `except Exception as e` around the call
OnOtherError(e) ==
    Fail(ValueError("Unexpected error occurred while processing document"),
         <<Entry("ERROR", "Unexpected error calling Textract")>>, <<>>)

\* faulty variant of CallFailed: only ClientError is caught around the call
CallFailed_NoGeneric(e) ==
    IF IsInstance(e, "ClientError") THEN OnClientError(e)
    ELSE Fail(e, <<>>, <<>>)

\* the except clauses around the Textract call, in source order
CallFailed(e) ==
    IF IsInstance(e, "ClientError") THEN OnClientError(e)
    ELSE IF IsInstance(e, "Exception") THEN OnOtherError(e)
    ELSE Fail(e, <<>>, <<>>)

\* ------------------------------------------------------------------ inputs
RECURSIVE SeqsUpTo(_, _)
SeqsUpTo(S, n) ==
    IF n = 0 THEN {<<>>}
    ELSE LET shorter == SeqsUpTo(S, n - 1) IN
         shorter \cup {Append(q, x) : q \in {y \in shorter : Len(y) = n - 1}, x \in S}

\* two alphabet characters, the pad and a character outside the alphabet
B64Syms == {"A", "/", "=", "!"}

Hello == <<"a", "G", "V", "s", "b", "G", "8", "=">>
NotValid == <<"n","o","t","_","v","a","l","i","d","_","b","a","s","e","6","4","!","!">>

ImageTexts ==
    SeqsUpTo(B64Syms, MaxImageLen)
    \cup {Hello, NotValid, <<"A", "A", "=", "=">>, <<"A", "A", "A", "=">>,
          <<"/", "/", "/", "/">>, <<"A", "!", "A", "=", "=">>,
          <<"e-acute", "A", "A", "A", "A">>, <<"U+D800">>}

ImageValues ==
    {PyStr(x) : x \in ImageTexts}
    \cup {PyNone, PyInt(123), PyBool(TRUE), PyList(<<>>), PyDict(<<>>)}

BucketAndName == PyDict(<< <<W("Bucket"), PyStr(W("b"))>>, <<W("Name"), PyStr(W("n"))>> >>)

S3Values ==
    { BucketAndName,
      PyDict(<< <<W("Name"), PyStr(W("n"))>>, <<W("Bucket"), PyStr(W("b"))>> >>),
      PyDict(<< <<W("Bucket"), PyNone>>, <<W("Name"), PyInt(5)>> >>),
      PyDict(<< <<W("Bucket"), PyStr(W("b"))>>, <<W("Name"), PyStr(W("n"))>>,
                <<W("Version"), PyStr(W("1"))>> >>),
      PyDict(<< <<W("Bucket"), PyStr(W("b"))>> >>),
      PyDict(<< <<W("Name"), PyStr(W("n"))>> >>),
      PyDict(<< <<W("bucket"), PyStr(W("b"))>>, <<W("name"), PyStr(W("n"))>> >>),
      PyDict(<<>>),
      PyNone, PyInt(5), PyBool(FALSE), PyStr(W("Bucket")), PyStr(<<>>),
      PyList(<<>>), PyList(<<PyStr(W("Bucket")), PyStr(W("Name"))>>) }

\* S3Object values that accompany an image key
S3BesideImage == {BucketAndName, PyDict(<<>>), PyNone}

\* values a request body can parse to
RequestValues ==
    { PyNone, PyBool(TRUE), PyBool(FALSE), PyInt(0), PyInt(123),
      PyStr(<<>>), PyStr(W("hello")), PyStr(W("image")), PyStr(W("S3Object")),
      PyStr(<<"an ", "image", " please">>),
      PyList(<<>>), PyList(<<PyInt(1)>>), PyList(<<PyStr(W("image"))>>),
      PyList(<<PyStr(W("S3Object"))>>),
      PyDict(<<>>), PyDict(<< <<W("document"), PyStr(W("x"))>> >>),
      PyDict(<< <<W("Image"), PyStr(<<"A", "A", "A", "A">>)>> >>),
      PyDict(<< <<W("s3object"), BucketAndName>> >>) }
    \cup {PyDict(<< <<W("image"), iv>> >>) : iv \in ImageValues}
    \cup {PyDict(<< <<W("image"), iv>>, <<W("S3Object"), sv>> >>) :
             iv \in ImageValues, sv \in S3BesideImage}
    \cup {PyDict(<< <<W("S3Object"), sv>>, <<W("image"), iv>> >>) :
             iv \in ImageValues, sv \in S3BesideImage}
    \cup {PyDict(<< <<W("S3Object"), sv>> >>) : sv \in S3Values}
    \cup {PyDict(<< <<W("S3Object"), sv>>, <<W("document"), PyInt(1)>> >>) : sv \in S3Values}

ImageKey == Lit(PyStr(W("image")))
S3Key == Lit(PyStr(W("S3Object")))
Quad == Lit(PyStr(<<"A", "A", "A", "A">>))

\* token sequences json.loads rejects
MalformedTexts ==
    { <<Junk>>, <<Punct("{"), Junk>>, <<Punct("{")>>, <<Punct("}")>>, <<Punct("[")>>,
      <<Punct("{"), ImageKey>>,
      <<Punct("{"), ImageKey, Punct(":")>>,
      <<Punct("{"), ImageKey, Punct(":"), Quad>>,
      <<Punct("{"), ImageKey, Quad, Punct("}")>>,
      <<Punct("{"), ImageKey, Punct(":"), Quad, Junk>>,
      <<Punct("{"), ImageKey, Punct(":"), Quad, Punct(","), Punct("}")>>,
      <<Punct("{"), ImageKey, Punct(":"), Quad, Punct("}"), Punct("}")>>,
      <<Punct("{"), ImageKey, Punct(":"), Quad, Punct("}"), Junk>>,
      <<Punct("{"), Lit(PyInt(1)), Punct(":"), Quad, Punct("}")>>,
      <<Punct("{"), S3Key, Punct(":"), Punct("{"), Punct("}")>>,
      <<Punct("["), Lit(PyInt(1)), Punct(",")>>,
      <<Punct("["), Lit(PyInt(1)), Lit(PyInt(1)), Punct("]")>>,
      <<Lit(PyInt(1)), Lit(PyInt(1))>>,
      <<ImageKey, Punct(":"), Quad>> }

\* well-formed texts with a repeated key, which json.dumps never writes
RepeatedKeyTexts ==
    { <<Punct("{"), ImageKey, Punct(":"), Lit(PyStr(<<"A">>)), Punct(","),
        ImageKey, Punct(":"), Quad, Punct("}")>>,
      <<Punct("{"), ImageKey, Punct(":"), Quad, Punct(","),
        ImageKey, Punct(":"), Lit(PyInt(1)), Punct("}")>> }

BodyTexts ==
    {JsonText(DumpTokens(v)) : v \in RequestValues}
    \cup {JsonText(x) : x \in MalformedTexts \cup RepeatedKeyTexts}

\* values of the event's body field: JSON text, the empty str, and values
\* that are not str at all
BodyValues ==
    BodyTexts
    \cup { JsonText(<<>>), PyNone, PyInt(0), PyBool(FALSE), PyList(<<>>), PyDict(<<>>),
           PyInt(1), PyBool(TRUE), PyList(<<PyInt(1)>>),
           PyDict(<< <<W("image"), PyStr(<<"A", "A", "A", "A">>)>> >>) }

Method == <<W("httpMethod"), PyStr(W("POST"))>>

Events ==
    {PyDict(<<Method, <<W("body"), b>> >>) : b \in BodyValues}
    \cup { PyDict(<<>>), PyDict(<<Method>>), PyDict(<< <<W("Body"), PyInt(1)>> >>),
           PyNone, PyInt(7), PyList(<<>>), PyList(<<PyStr(W("body"))>>),
           PyStr(W("body")), PyStr(<<>>) }

\* Block records of the service
Line == PyDict(<< <<W("BlockType"), PyStr(W("LINE"))>>, <<W("Text"), PyStr(W("hi"))>> >>)
Word == PyDict(<< <<W("BlockType"), PyStr(W("WORD"))>>, <<W("Text"), PyStr(W("hi"))>>,
                  <<W("Page"), PyInt(1)>> >>)

Metadata == <<W("DocumentMetadata"), PyDict(<< <<W("Pages"), PyInt(1)>> >>)>>

\* what detect_document_text returns: a dict, with Blocks or without
TextractResponses ==
    {PyDict(<<Metadata, <<W("Blocks"), PyList(bs)>> >>) : bs \in SeqsUpTo({Line, Word}, MaxBlocks)}
    \cup {PyDict(<< <<W("Blocks"), PyList(bs)>> >>) : bs \in SeqsUpTo({Line, Word}, MaxBlocks)}
    \cup {PyDict(<<Metadata>>), PyDict(<<>>)}

\* botocore's ClientError: e.response always holds Error.Code and Error.Message
ClientErrors ==
    { [ cls |-> "ClientError", msg |-> W("An error occurred"),
        response |-> PyDict(<< <<W("Error"),
                                 PyDict(<< <<W("Message"), PyStr(m)>>,
                                           <<W("Code"), PyStr(W(c))>> >>)>> >>) ] :
        c \in {"InvalidParameterException", "UnsupportedDocumentException",
               "ProvisionedThroughputExceededException"},
        m \in {<<>>, W("Request has invalid parameters")} }

\* every other exception the call can raise
OtherErrors ==
    { [cls |-> c, msg |-> W("downstream failure")] :
        c \in {"ParamValidationError", "EndpointConnectionError", "BotoCoreError",
               "ValueError", "KeyError", "TypeError", "RuntimeError", "Exception"} }

\* ----------------------------------------------------------------- actions
Init ==
    /\ pc = "idle"
    /\ event = <<>>
    /\ request_body = <<>>
    /\ image = <<>>
    /\ blocks = <<>>
    /\ calls = <<>>
    /\ outcome = <<>>
    /\ response = <<>>
    /\ log = <<>>

\* leave the handler: through an except clause of the outer try, or by raising
Leave(exc, lg) ==
    LET h == except_clauses(exc) IN
    /\ pc' = IF h.ok THEN "returned" ELSE "raised"
    /\ response' = IF h.ok THEN <<h.val>> ELSE <<>>
    /\ log' = lg \o h.log

\* lambda_handler(event, context) up to the Textract call or to its return
Invoke(ev) ==
    /\ pc = "idle"
    /\ LET r == Prologue(ev) IN
       /\ event' = <<ev>>
       /\ request_body' = r.request_body
       /\ IF r.ok
          THEN /\ pc' = "textract"
               /\ image' = <<r.val>>
               /\ calls' = Append(calls, r.val)
               /\ log' = log \o r.log
               /\ UNCHANGED response
          ELSE /\ Leave(r.exc, log \o r.log)
               /\ UNCHANGED <<image, calls>>
    /\ UNCHANGED <<blocks, outcome>>

\* textract_client.detect_document_text returns resp
TextractReturns(resp) ==
    /\ pc = "textract"
    /\ outcome' = <<[kind |-> "return", response |-> resp]>>
    /\ LET r == Success(resp) IN
       /\ blocks' = r.blocks
       /\ pc' = IF r.ok THEN "returned" ELSE "raised"
       /\ response' = IF r.ok THEN <<r.val>> ELSE <<>>
       /\ log' = log \o r.log
    /\ UNCHANGED <<event, request_body, image, calls>>

\* textract_client.detect_document_text raises botocore's ClientError
TextractClientError(e) ==
    /\ pc = "textract"
    /\ outcome' = <<[kind |-> "raise", exc |-> e]>>
    /\ LET r == CallFailed(e) IN Leave(r.exc, log \o r.log)
    /\ UNCHANGED <<event, request_body, image, blocks, calls>>

\* textract_client.detect_document_text raises anything else
TextractOtherError(e) ==
    /\ pc = "textract"
    /\ outcome' = <<[kind |-> "raise", exc |-> e]>>
    /\ LET r == CallFailed(e) IN Leave(r.exc, log \o r.log)
    /\ UNCHANGED <<event, request_body, image, blocks, calls>>

\* the runtime takes the result; the next invocation starts with fresh locals
NextInvocation ==
    /\ pc \in {"returned", "raised"}
    /\ pc' = "idle"
    /\ event' = <<>>
    /\ request_body' = <<>>
    /\ image' = <<>>
    /\ blocks' = <<>>
    /\ calls' = <<>>
    /\ outcome' = <<>>
    /\ response' = <<>>
    /\ log' = <<>>

Next ==
    \/ \E ev \in Events : Invoke(ev)
    \/ \E resp \in TextractResponses : TextractReturns(resp)
    \/ \E e \in ClientErrors : TextractClientError(e)
    \/ \E e \in OtherErrors : TextractOtherError(e)
    \/ NextInvocation

Spec == Init /\ [][Next]_vars

\* ----------------------------------------------------- reading the state
Returned == pc = "returned" /\ Len(response) = 1
Status == response[1].statusCode
\* the response body, parsed back
Payload == json_loads(response[1].body).val
Keys(d) == {d.items[k][1] : k \in 1..Len(d.items)}
IsError(status, kind) ==
    /\ Status = status
    /\ Lookup(Payload, W("Error")) = PyStr(W(kind))
ErrorMessage == Lookup(Payload, W("ErrorMessage"))
Said(text) == ErrorMessage = PyStr(W(text))

EventIsMapping == Len(event) = 1 /\ event[1].t = "dict"
HasBody == EventIsMapping /\ HasKey(event[1], W("body"))
TheBody == Lookup(event[1], W("body"))
Parsed == Len(request_body) = 1
Request == request_body[1]
RequestIsMapping == Parsed /\ Request.t = "dict"
Raised == Len(outcome) = 1 /\ outcome[1].kind = "raise"
Replied == Len(outcome) = 1 /\ outcome[1].kind = "return"

MsgMissingBody == "Missing request body"
MsgBase64 == "Invalid base64 image encoding"
MsgS3 == "Invalid S3Object structure, required: 'Bucket' and 'Name'"
MsgNoSource == "Invalid input: Provide 'image' as base64 or 'S3Object' with bucket and name"
MsgTextract == "Error processing document with Textract"
MsgUnexpected == "Unexpected error occurred while processing document"
MsgInternal == "An internal error occurred. Check logs for details."

FixedMessages ==
    {PyStr(W(m)) : m \in {MsgMissingBody, MsgBase64, MsgS3, MsgNoSource, MsgTextract,
                          MsgUnexpected, MsgInternal}}

\* C1: every invocation ends in a response envelope, never in a raised
\* exception, and the envelope has the JSON content type and is a 200 whose
\* body holds only Blocks, a 400 whose body holds exactly Error="ValueError"
\* and ErrorMessage, or a 500 whose body holds exactly
\* Error="InternalServerError" and ErrorMessage.
C1_EnvelopeForms ==
    /\ pc # "raised"
    /\ pc = "returned" =>
        /\ Len(response) = 1
        /\ DOMAIN response[1] = {"statusCode", "headers", "body"}
        /\ response[1].headers = ("Content-Type" :> "application/json")
        /\ json_loads(response[1].body).ok
        /\ Payload.t = "dict"
        /\ \/ Status = 200 /\ Keys(Payload) = {W("Blocks")}
           \/ /\ Keys(Payload) = {W("Error"), W("ErrorMessage")}
              /\ ErrorMessage.t = "str"
              /\ IsError(400, "ValueError") \/ IsError(500, "InternalServerError")

\* C1 witness: a request whose body is JSON but no mapping ended in the 500 envelope
C1_Witness ==
    /\ Returned /\ Status = 500
    /\ Parsed /\ Request.t = "int"

C3_OnlyFixedMessages ==
    (Returned /\ Status # 200) => ErrorMessage \in FixedMessages

\* C4: a body that parses as JSON to a value with neither an image nor an
\* S3Object source, whatever the value is, gives 400 ValueError with the
\* "Invalid input" message and no downstream call.
C4_NoSourceIs400 ==
    (pc # "idle" /\ HasBody /\ IsJsonText(TheBody) /\ Truthy(TheBody)
                 /\ json_loads(TheBody).ok
                 /\ LET v == json_loads(TheBody).val IN
                    ~(v.t = "dict" /\ (HasKey(v, W("image")) \/ HasKey(v, W("S3Object")))))
    => /\ Returned
       /\ IsError(400, "ValueError")
       /\ Said(MsgNoSource)
       /\ calls = <<>>

\* the S3Object value supplies both Bucket and Name
SuppliesBucketAndName(v) ==
    v.t = "dict" /\ HasKey(v, W("Bucket")) /\ HasKey(v, W("Name"))

\* C5: a parsed body without an image key whose S3Object value does not supply
\* both Bucket and Name (a key missing, or the value no mapping) gives 400
\* ValueError with the "Invalid S3Object structure" message and no downstream call.
C5_BadS3ObjectIs400 ==
    (pc # "idle" /\ RequestIsMapping
                 /\ ~HasKey(Request, W("image")) /\ HasKey(Request, W("S3Object"))
                 /\ ~SuppliesBucketAndName(Lookup(Request, W("S3Object"))))
    => /\ Returned
       /\ IsError(400, "ValueError")
       /\ Said(MsgS3)
       /\ calls = <<>>

\* C6: a downstream call that fails gives 400 ValueError, never 500; the
\* message is "Error processing document with Textract" for a ClientError and
\* "Unexpected error occurred while processing document" for anything else.
C6_DownstreamFailureIs400 ==
    Raised =>
        /\ Returned
        /\ IsError(400, "ValueError")
        /\ IF outcome[1].exc.cls = "ClientError" THEN Said(MsgTextract)
           ELSE Said(MsgUnexpected)

\* C6 witness: the call raised a ValueError of its own and the handler returned
C6_Witness ==
    /\ Raised /\ Returned
    /\ outcome[1].exc.cls = "ValueError"
    /\ Len(calls) = 1

\* C7: an event without a body field, or with an empty or falsy body, gives
\* 400 ValueError "Missing request body"; nothing is parsed, nothing is called.
C7_MissingBodyIs400 ==
    (pc # "idle" /\ EventIsMapping /\ (~HasBody \/ ~Truthy(TheBody)))
    => /\ Returned
       /\ IsError(400, "ValueError")
       /\ Said(MsgMissingBody)
       /\ ~Parsed
       /\ calls = <<>>

\* C7 witness: the body field was present and was the empty str
C7_Witness ==
    /\ Returned /\ HasBody
    /\ TheBody = JsonText(<<>>)

\* C8: when the downstream call returns, the response is 200 and its body is
\* {"Blocks": B}, B being the Blocks of the result, same records, same order,
\* or the empty list when the result has no Blocks.
C8_BlocksPassThrough ==
    Replied =>
        /\ Returned
        /\ Status = 200
        /\ LET resp == outcome[1].response IN
           Payload = PyDict(<< <<W("Blocks"),
                                 IF HasKey(resp, W("Blocks")) THEN Lookup(resp, W("Blocks"))
                                 ELSE PyList(<<>>)>> >>)
        /\ Lookup(Payload, W("Blocks")).t = "list"

\* C8 witness: two different Block records came back, a Word before a Line
C8_Witness ==
    /\ Replied /\ Returned
    /\ HasKey(outcome[1].response, W("Blocks"))
    /\ Lookup(outcome[1].response, W("Blocks")) = PyList(<<Word, Line>>)

\* C9: when the parsed body has an image key the image branch alone decides,
\* with or without an S3Object key: an image value that does not decode gives
\* 400 "Invalid base64 image encoding" and no call; one that decodes is sent
\* as exactly {Bytes: decoded bytes}.
C9_ImageBranchDecides ==
    (pc # "idle" /\ RequestIsMapping /\ HasKey(Request, W("image")))
    => LET v == Lookup(Request, W("image"))
           decodes == v.t = "str" /\ str_encode(v).ok /\ b64decode(str_encode(v).val).ok
       IN  /\ ~decodes =>
                /\ Returned /\ IsError(400, "ValueError") /\ Said(MsgBase64)
                /\ calls = <<>>
           /\ decodes =>
                calls = << PyDict(<< <<W("Bytes"), b64decode(str_encode(v).val).val>> >>) >>
           /\ v = PyStr(Hello) =>
                calls = << PyDict(<< <<W("Bytes"), PyBytes(<<104, 101, 108, 108, 111>>)>> >>) >>
           /\ v = PyStr(NotValid) => calls = <<>>
           /\ v = PyStr(<<"A", "!", "A", "=", "=">>) =>
                calls = << PyDict(<< <<W("Bytes"), PyBytes(<<0>>)>> >>) >>

\* C9 witness: image and S3Object both present, the image sent as three bytes
C9_Witness ==
    /\ RequestIsMapping
    /\ HasKey(Request, W("image")) /\ HasKey(Request, W("S3Object"))
    /\ calls = << PyDict(<< <<W("Bytes"), PyBytes(<<255, 255, 255>>)>> >>) >>

\* body check, JSON parse and source resolution all succeed for this event
StagesSucceed ==
    /\ HasBody /\ Truthy(TheBody)
    /\ json_loads(TheBody).ok
    /\ LET rb == json_loads(TheBody).val IN
       /\ rb.t = "dict"
       /\ IF HasKey(rb, W("image"))
          THEN LET v == Lookup(rb, W("image")) IN
               v.t = "str" /\ str_encode(v).ok /\ b64decode(str_encode(v).val).ok
          ELSE HasKey(rb, W("S3Object"))
               /\ SuppliesBucketAndName(Lookup(rb, W("S3Object")))

\* C10: the downstream service is called at most once per invocation: once
\* when body check, parse and source resolution succeed, not at all when one
\* of them fails, and not again after the call failed.
C10_AtMostOneCall ==
    /\ Len(calls) <= 1
    /\ pc # "idle" => (Len(calls) = 1 <=> StagesSucceed)
    /\ Len(outcome) = 1 => Len(calls) = 1
    /\ Raised => (Returned /\ Status = 400)

\* C10 witness: the one call failed with a throttling error and 400 went back
C10_Witness ==
    /\ Raised /\ Returned /\ Status = 400
    /\ outcome[1].exc.cls = "ClientError"
    /\ Len(calls) = 1
    /\ HasKey(calls[1], W("S3Object"))

====
